---- MODULE Spec2Model ----
(***************************************************************************)
(* Model of package retry (testutil/retry/retry.go): the recorder R, the   *)
(* retry loop run/RunWith, dedup, and the two Retryer policies Counter and *)
(* Timer.  Time is an integer clock; a sleep of d lasts d or longer, an    *)
(* attempt takes no time or some.                                          *)
(***************************************************************************)
EXTENDS Integers, Sequences, FiniteSets, TLC

\* ---------------------------------------------------------------- bounds
MaxCount == 3        \* largest Counter.Count tried
MaxTimeout == 2      \* largest Timer.Timeout tried
MaxWait == 2         \* largest Wait tried
MaxAttempts == 4     \* attempts launched per RunWith call (caps unbounded policies)
MaxOutput == 3       \* lines the recorder's log may hold
MaxLate == 2         \* total time taken by oversleeping and by the attempts
MaxRuns == 2         \* RunWith calls made with the same policy instance
MaxDirect == 5       \* NextOr calls made by a direct caller
IntBits == 3         \* width of Go's int, on which Counter.count wraps around
MaxLines == 5        \* lines of a log handed to dedup on its own

\* The zero time.Time: the value of Timer.stop before the first NextOr.
ZeroTime == 0
\* The clock at construction; far enough from ZeroTime that now + Timeout is
\* never the zero time (as for any real clock reading).
Epoch == ZeroTime + 2

\* The least and the greatest int.
MinInt == -(2 ^ (IntBits - 1))
MaxInt == 2 ^ (IntBits - 1) - 1

Counts == (-1)..MaxCount
Timeouts == (-1)..MaxTimeout
Waits == 0..MaxWait

\* The call sites of the attempt function f: file, line and message (for
\* Fatalf the format, which has no verb and is given no argument) of the
\* r.Error / r.Fatal / r.Fatalf calls it contains.
CallSites == { [file |-> "x_test.go", line |-> 10, msg |-> "x"] }

VARIABLES
    kind,       \* which Retryer r is: "Counter" or "Timer"
    Count,      \* Counter.Count
    Timeout,    \* Timer.Timeout
    Wait,       \* Counter.Wait / Timer.Wait
    count,      \* Counter.count
    stop,       \* Timer.stop
    now,        \* the clock, time.Now()
    rr,         \* the recorder of the current run: [fail, output]
    tEvents,    \* calls made on t by the current run: Log(text) and FailNow
    pc,         \* where run (or the direct caller) is
    wg,         \* the WaitGroup counter of the current loop iteration
    alive,      \* number of attempt goroutines alive
    ret,        \* outcome of the caller's latest NextOr call: "true", "false",
                \* "goexit" (fail ended the goroutine), "none" (no call yet)
    callAt,     \* the clock when that call began
    slept,      \* number of time.Sleep calls that call made
    stopWrites, \* number of assignments to Timer.stop so far
    nTrue,      \* NextOr calls that returned true, over the policy's life
    nFalse,     \* NextOr calls that returned false, over the policy's life
    failCalls,  \* invocations of the fail callback, over the policy's life
    runs,       \* RunWith calls started with this policy
    attempts,   \* attempts launched by the current run
    sleeps,     \* sleeps performed during the current run
    outcomes,   \* per finished attempt of the current run: whether it called
                \* Error, Fatal, Fatalf or FailNow
    lastExit,   \* how the latest attempt ended: "return", "goexit", "none"
    logged,     \* every line handed to R.log during the current run, in order
    dirty,      \* the running attempt has called Error, Fatal, Fatalf or FailNow
    late,       \* time taken so far by the attempts and by sleeps lasting
                \* longer than asked: 0 while every sleep was exact and every
                \* attempt instant
    advancing   \* the clock advances during every attempt (never written)

polVars == <<kind, Count, Timeout, Wait, count, stop, stopWrites, advancing>>
callVars == <<ret, callAt, slept, nTrue, nFalse, failCalls>>
runVars == <<rr, tEvents, wg, alive, runs, attempts, outcomes, lastExit, logged,
             dirty>>
vars == <<kind, Count, Timeout, Wait, count, stop, now, rr, tEvents, pc, wg,
          alive, ret, callAt, slept, stopWrites, nTrue, nFalse, failCalls,
          runs, attempts, sleeps, outcomes, lastExit, logged, dirty, late,
          advancing>>

\* ------------------------------------------------------------- recorder R

\* decorate: "file:line: s" for the call site three frames up.
decorate(site, s) == site.file \o ":" \o ToString(site.line) \o ": " \o s

\* R.log: append the decorated line.
log(r, site, s) == [r EXCEPT !.output = Append(@, decorate(site, s))]

\* fmt.Sprint(args...) of the call's one string argument.
Sprint(msg) == msg

\* fmt.Sprintf(format, args): the slice args is passed as ONE operand, which a
\* format without verbs reports as extra.
Sprintf(format) == format \o "%!(EXTRA []interface {}=[])"

\* Error that logs and leaves the fail flag alone.
ErrorLogOnly(r, site) == log(r, site, Sprint(site.msg))

\* R.Error: log, then set fail; the attempt goes on.
Error(r, site) == [log(r, site, Sprint(site.msg)) EXCEPT !.fail = TRUE]

\* FailNow that exits without recording the failure.
FailNowUnrecorded(r) == r

\* R.FailNow: set fail (runtime.Goexit is the caller's exit).
FailNow(r) == [r EXCEPT !.fail = TRUE]

\* R.Fatal: log, then FailNow.
Fatal(r, site) == FailNow(log(r, site, Sprint(site.msg)))

\* R.Fatalf: log, then FailNow.
Fatalf(r, site) == FailNow(log(r, site, Sprintf(site.msg)))

\* ------------------------------------------------------------------ dedup

RECURSIVE Occurring(_)
\* The keys of the map m built by dedup's first loop.
Occurring(a) == IF a = <<>> THEN {} ELSE {Head(a)} \cup Occurring(Tail(a))

RECURSIVE WriteAtLast(_, _)
\* A second loop that writes each line where it last occurs.
WriteAtLast(a, m) ==
    IF a = <<>> THEN ""
    ELSE IF Head(a) \in m /\ Head(a) \notin Occurring(Tail(a))
         THEN Head(a) \o "\n" \o WriteAtLast(Tail(a), m)
         ELSE WriteAtLast(Tail(a), m)

RECURSIVE WriteOnce(_, _)
\* dedup's second loop: write s and a newline if s is still in m, and delete it.
WriteOnce(a, m) ==
    IF a = <<>> THEN ""
    ELSE IF Head(a) \in m
         THEN Head(a) \o "\n" \o WriteOnce(Tail(a), m \ {Head(a)})
         ELSE WriteOnce(Tail(a), m)

RECURSIVE dedupKeepAll(_)
\* dedup that writes every line, repeated or not.
dedupKeepAll(a) ==
    IF a = <<>> THEN "" ELSE Head(a) \o "\n" \o dedupKeepAll(Tail(a))

\* dedup: "" for no line, else each line once, where it first occurs.
dedup(a) == IF Len(a) = 0 THEN "" ELSE WriteOnce(a, Occurring(a))

\* ------------------------------------------------------------------ clock

\* Time passes: e more than the program asked for.
Elapse(d, e) ==
    /\ now' = now + d + e
    /\ late' = late + e

\* How much longer than asked a sleep may still last.
Slack == IF late < MaxLate THEN MaxLate - late ELSE 0

\* How long an attempt may take: any time the bound allows, and one tick of
\* the clock when the clock advances during every attempt.
Durations == IF advancing THEN {1} ELSE 0..Slack

\* A sleep that returns at once.
SleepNot(d) ==
    /\ Elapse(0, 0)
    /\ slept' = 1
    /\ sleeps' = sleeps + 1

\* time.Sleep(d): the clock advances by d, or by more.
Sleep(d) ==
    /\ \E over \in 0..Slack : Elapse(d, over)
    /\ slept' = 1
    /\ sleeps' = sleeps + 1

\* A NextOr call that does not sleep.
NoSleep == /\ slept' = 0
           /\ UNCHANGED <<now, late, sleeps>>

\* -------------------------------------------------------- the fail callback

\* run's closure fail: dedup the log, t.Log it unless empty, then t.FailNow.
RunFail ==
    LET out == dedup(rr.output)
        tLog == IF out # "" THEN <<[op |-> "Log", text |-> out]>> ELSE <<>>
    IN  tEvents' = tEvents \o tLog \o <<[op |-> "FailNow"]>>

\* NextOr reporting exhaustion without calling fail.
CallFailSkipped(cb) == UNCHANGED <<failCalls, tEvents>>

\* NextOr's call fail(): cb = "run" is run's closure, which ends in t.FailNow
\* and so never returns; cb = "plain" is a callback that returns.
CallFail(cb) ==
    /\ failCalls' = failCalls + 1
    /\ IF cb = "run" THEN RunFail ELSE UNCHANGED tEvents

\* A fail() that comes back to NextOr whoever supplied it.
ReturnsToCaller(cb) == TRUE

\* Whether fail() comes back to NextOr: t.FailNow ends the goroutine it is
\* called on.
Returns(cb) == cb # "run"

\* What the call yields once fail() was called: false, or nothing at all when
\* the callback has ended the calling goroutine.
AfterFail(cb) == IF Returns(cb) THEN "false" ELSE "goexit"

\* The count of the calls that returned, by what they returned.
Tally ==
    /\ nTrue' = IF ret' = "true" THEN nTrue + 1 ELSE nTrue
    /\ nFalse' = IF ret' = "false" THEN nFalse + 1 ELSE nFalse

\* ---------------------------------------------------------------- Retryer

\* The test off by one: r.count > r.Count.
CounterExhaustedLate == count > Count

\* if r.count == r.Count
CounterExhausted == count = Count

\* n++ on an int: the greatest int is followed by the least.
Inc(n) == IF n = MaxInt THEN MinInt ELSE n + 1

\* The sleep guard off by one: a sleep before the first attempt too.
CounterSleepsAlways == count >= 0

\* if r.count > 0
CounterSleeps == count > 0

\* Counter.NextOr
CounterNextOr(cb) ==
    /\ callAt' = now
    /\ IF CounterExhausted
       THEN /\ CallFail(cb)
            /\ ret' = AfterFail(cb)
            /\ NoSleep
            /\ UNCHANGED count
       ELSE /\ IF CounterSleeps THEN Sleep(Wait) ELSE NoSleep
            /\ count' = Inc(count)
            /\ ret' = "true"
            /\ UNCHANGED <<tEvents, failCalls>>
    /\ Tally
    /\ UNCHANGED <<kind, Count, Timeout, Wait, stop, stopWrites, advancing>>

\* A stop that is never taken for unset.
IsZeroNever(t) == FALSE

\* time.Time.IsZero
IsZero(t) == t = ZeroTime

\* The deadline compared with >= instead of After.
NotBefore(t, u) == t >= u

\* time.Time.After
After(t, u) == t > u

\* Timer.NextOr looking at the deadline after the sleep instead of before.
TimerNextOrSleepThenCheck(cb) ==
    /\ callAt' = now
    /\ IF IsZero(stop)
       THEN /\ stop' = now + Timeout
            /\ stopWrites' = stopWrites + 1
            /\ ret' = "true"
            /\ NoSleep
            /\ UNCHANGED <<tEvents, failCalls>>
       ELSE /\ Sleep(Wait)
            /\ UNCHANGED <<stop, stopWrites>>
            /\ IF After(now', stop)
               THEN /\ CallFail(cb)
                    /\ ret' = AfterFail(cb)
               ELSE /\ ret' = "true"
                    /\ UNCHANGED <<tEvents, failCalls>>
    /\ Tally
    /\ UNCHANGED <<kind, Count, Timeout, Wait, count, advancing>>

\* Timer.NextOr moving the deadline on at every call that returns true.
TimerNextOrRearm(cb) ==
    /\ callAt' = now
    /\ IF IsZero(stop)
       THEN /\ stop' = now + Timeout
            /\ stopWrites' = stopWrites + 1
            /\ ret' = "true"
            /\ NoSleep
            /\ UNCHANGED <<tEvents, failCalls>>
       ELSE IF After(now, stop)
            THEN /\ CallFail(cb)
                 /\ ret' = AfterFail(cb)
                 /\ NoSleep
                 /\ UNCHANGED <<stop, stopWrites>>
            ELSE /\ Sleep(Wait)
                 /\ stop' = now + Timeout
                 /\ stopWrites' = stopWrites + 1
                 /\ ret' = "true"
                 /\ UNCHANGED <<tEvents, failCalls>>
    /\ Tally
    /\ UNCHANGED <<kind, Count, Timeout, Wait, count, advancing>>

\* Timer.NextOr sleeping on its first call as on the later ones.
TimerNextOrSleepFirst(cb) ==
    /\ callAt' = now
    /\ IF IsZero(stop)
       THEN /\ stop' = now + Timeout
            /\ stopWrites' = stopWrites + 1
            /\ Sleep(Wait)
            /\ ret' = "true"
            /\ UNCHANGED <<tEvents, failCalls>>
       ELSE IF After(now, stop)
            THEN /\ CallFail(cb)
                 /\ ret' = AfterFail(cb)
                 /\ NoSleep
                 /\ UNCHANGED <<stop, stopWrites>>
            ELSE /\ Sleep(Wait)
                 /\ ret' = "true"
                 /\ UNCHANGED <<stop, stopWrites, tEvents, failCalls>>
    /\ Tally
    /\ UNCHANGED <<kind, Count, Timeout, Wait, count, advancing>>

\* Timer.NextOr
TimerNextOr(cb) ==
    /\ callAt' = now
    /\ IF IsZero(stop)
       THEN /\ stop' = now + Timeout
            /\ stopWrites' = stopWrites + 1
            /\ ret' = "true"
            /\ NoSleep
            /\ UNCHANGED <<tEvents, failCalls>>
       ELSE IF After(now, stop)
            THEN /\ CallFail(cb)
                 /\ ret' = AfterFail(cb)
                 /\ NoSleep
                 /\ UNCHANGED <<stop, stopWrites>>
            ELSE /\ Sleep(Wait)
                 /\ ret' = "true"
                 /\ UNCHANGED <<stop, stopWrites, tEvents, failCalls>>
    /\ Tally
    /\ UNCHANGED <<kind, Count, Timeout, Wait, count, advancing>>

\* r.NextOr(fail) through the Retryer interface.
NextOr(cb) == IF kind = "Counter" THEN CounterNextOr(cb) ELSE TimerNextOr(cb)

\* -------------------------------------------------------------------- run

\* rr := &R{}
NewR == [fail |-> FALSE, output |-> <<>>]

\* The loop condition r.NextOr(fail): true enters the body, false leaves the
\* loop and run returns; when fail has ended the goroutine nothing follows.
RunNextOr ==
    /\ pc = "next"
    /\ NextOr("run")
    /\ pc' = CASE ret' = "true" -> "body"
               [] ret' = "false" -> "done"
               [] OTHER -> "exhausted"
    /\ UNCHANGED <<rr, wg, alive, runs, attempts, outcomes, lastExit, logged,
                   dirty>>

\* wg.Add(1); go func() { defer wg.Done(); f(rr) }()
Launch ==
    /\ pc = "body"
    /\ advancing \/ attempts < MaxAttempts
    /\ wg' = 1
    /\ alive' = alive + 1
    /\ attempts' = attempts + 1
    /\ dirty' = FALSE
    /\ pc' = "wait"
    /\ lastExit' = "none"
    /\ UNCHANGED <<polVars, callVars, now, late, rr, tEvents, runs, sleeps,
                   outcomes, logged>>

\* wg.Done() called after f(rr) instead of deferred: runtime.Goexit skips it.
ExitNoDefer(how, failing) ==
    /\ wg' = IF how = "goexit" THEN wg ELSE wg - 1
    /\ alive' = alive - 1
    /\ outcomes' = Append(outcomes, failing)
    /\ lastExit' = how
    /\ \E d \in Durations : Elapse(0, d)

\* The attempt's goroutine ends: the deferred wg.Done() runs, whether f
\* returned or runtime.Goexit unwound it.
Exit(how, failing) ==
    /\ wg' = wg - 1
    /\ alive' = alive - 1
    /\ outcomes' = Append(outcomes, failing)
    /\ lastExit' = how
    /\ \E d \in Durations : Elapse(0, d)

\* f calls r.Error(...) and goes on.
AttemptError ==
    /\ alive > 0
    /\ Len(rr.output) < MaxOutput
    /\ \E site \in CallSites :
           /\ rr' = Error(rr, site)
           /\ logged' = Append(logged, decorate(site, Sprint(site.msg)))
    /\ dirty' = TRUE
    /\ UNCHANGED <<polVars, callVars, now, late, tEvents, pc, wg, alive, runs,
                   attempts, sleeps, outcomes, lastExit>>

\* f calls r.Fatal(...).
AttemptFatal ==
    /\ alive > 0
    /\ Len(rr.output) < MaxOutput
    /\ \E site \in CallSites :
           /\ rr' = Fatal(rr, site)
           /\ logged' = Append(logged, decorate(site, Sprint(site.msg)))
    /\ dirty' = TRUE
    /\ Exit("goexit", TRUE)
    /\ UNCHANGED <<polVars, callVars, tEvents, pc, runs, attempts, sleeps>>

\* f calls r.Fatalf(...).
AttemptFatalf ==
    /\ alive > 0
    /\ Len(rr.output) < MaxOutput
    /\ \E site \in CallSites :
           /\ rr' = Fatalf(rr, site)
           /\ logged' = Append(logged, decorate(site, Sprintf(site.msg)))
    /\ dirty' = TRUE
    /\ Exit("goexit", TRUE)
    /\ UNCHANGED <<polVars, callVars, tEvents, pc, runs, attempts, sleeps>>

\* f calls r.FailNow().
AttemptFailNow ==
    /\ alive > 0
    /\ rr' = FailNow(rr)
    /\ dirty' = TRUE
    /\ Exit("goexit", TRUE)
    /\ UNCHANGED <<polVars, callVars, tEvents, pc, runs, attempts, sleeps,
                   logged>>

\* f returns.
AttemptReturn ==
    /\ alive > 0
    /\ Exit("return", dirty)
    /\ UNCHANGED <<polVars, callVars, rr, tEvents, pc, runs, attempts, sleeps,
                   logged, dirty>>

\* wg.Wait() left out: run goes on while the attempt is running.
JoinedAtOnce == TRUE

\* wg.Wait() returns once the counter is zero.
Joined == wg = 0

\* wg.Wait()
Join ==
    /\ pc = "wait"
    /\ Joined
    /\ pc' = "check"
    /\ UNCHANGED <<polVars, callVars, runVars, now, late, sleeps>>

\* Check that starts the next attempt on a new recorder.
CheckNewRecorder ==
    /\ pc = "check"
    /\ IF rr.fail
       THEN /\ rr' = NewR
            /\ pc' = "next"
       ELSE /\ rr' = rr
            /\ pc' = "done"
    /\ UNCHANGED <<polVars, callVars, now, tEvents, wg, alive, runs, attempts,
                   sleeps, outcomes, lastExit, logged, dirty, late>>

\* Check that retries without resetting the fail flag.
CheckNoReset ==
    /\ pc = "check"
    /\ pc' = IF rr.fail THEN "next" ELSE "done"
    /\ UNCHANGED <<polVars, callVars, now, rr, tEvents, wg, alive, runs,
                   attempts, sleeps, outcomes, lastExit, logged, dirty, late>>

\* Check without its break: the loop goes on after a clean attempt too.
CheckNoBreak ==
    /\ pc = "check"
    /\ rr' = [rr EXCEPT !.fail = FALSE]
    /\ pc' = "next"
    /\ UNCHANGED <<polVars, callVars, now, tEvents, wg, alive, runs, attempts,
                   sleeps, outcomes, lastExit, logged, dirty, late>>

\* Check that reports each failed attempt's log to t as it goes.
CheckReporting ==
    /\ pc = "check"
    /\ IF rr.fail
       THEN /\ rr' = [rr EXCEPT !.fail = FALSE]
            /\ tEvents' = Append(tEvents, [op |-> "Log", text |-> dedup(rr.output)])
            /\ pc' = "next"
       ELSE /\ rr' = rr
            /\ tEvents' = tEvents
            /\ pc' = "done"
    /\ UNCHANGED <<polVars, callVars, now, wg, alive, runs, attempts, sleeps,
                   outcomes, lastExit, logged, dirty, late>>

\* if rr.fail { rr.fail = false; continue }; break
Check ==
    /\ pc = "check"
    /\ IF rr.fail
       THEN /\ rr' = [rr EXCEPT !.fail = FALSE]
            /\ pc' = "next"
       ELSE /\ rr' = rr
            /\ pc' = "done"
    /\ UNCHANGED <<polVars, callVars, now, tEvents, wg, alive, runs, attempts,
                   sleeps, outcomes, lastExit, logged, dirty, late>>

\* A later RunWith(r, t, f) with the same policy instance r: a new recorder,
\* a test that has not been failed.
RunWithAgain ==
    /\ pc \in {"done", "exhausted"}
    /\ runs < MaxRuns
    /\ runs' = runs + 1
    /\ rr' = NewR
    /\ tEvents' = <<>>
    /\ pc' = "next"
    /\ wg' = 0
    /\ attempts' = 0
    /\ sleeps' = 0
    /\ outcomes' = <<>>
    /\ lastExit' = "none"
    /\ logged' = <<>>
    /\ dirty' = FALSE
    /\ ret' = "none"
    /\ callAt' = now
    /\ slept' = 0
    /\ UNCHANGED <<polVars, nTrue, nFalse, failCalls, now, late, alive>>

\* ----------------------------------------------------------- specification

\* A policy as constructed (Counter{Count: n, Wait: d} or
\* Timer{Timeout: b, Wait: d}) and the rest as it is when its first user starts.
InitPolicy ==
    /\ kind \in {"Counter", "Timer"}
    /\ Timeout \in (IF kind = "Timer" THEN Timeouts ELSE {0})
    /\ Wait \in Waits
    /\ count = 0
    /\ stop = ZeroTime
    /\ stopWrites = 0
    /\ now = Epoch
    /\ ret = "none"
    /\ callAt = Epoch
    /\ slept = 0
    /\ nTrue = 0
    /\ nFalse = 0
    /\ failCalls = 0
    /\ rr = NewR
    /\ tEvents = <<>>
    /\ wg = 0
    /\ alive = 0
    /\ attempts = 0
    /\ sleeps = 0
    /\ outcomes = <<>>
    /\ lastExit = "none"
    /\ logged = <<>>
    /\ dirty = FALSE
    /\ late = 0

\* RunWith(r, t, f) has been called.
Init ==
    /\ InitPolicy
    /\ Count \in (IF kind = "Counter" THEN Counts ELSE {0})
    /\ pc = "next"
    /\ runs = 1
    /\ advancing = FALSE

Next ==
    \/ RunNextOr
    \/ Launch
    \/ AttemptError
    \/ AttemptFatal
    \/ AttemptFatalf
    \/ AttemptFailNow
    \/ AttemptReturn
    \/ Join
    \/ Check
    \/ RunWithAgain

Spec == Init /\ [][Next]_vars

\* A caller that uses the policy directly, as in the package comment, with a
\* callback that returns: it calls NextOr, does something, calls again.
DirectNextOr ==
    /\ pc = "direct"
    /\ nTrue + nFalse < MaxDirect
    /\ NextOr("plain")
    /\ UNCHANGED <<pc, rr, wg, alive, runs, attempts, outcomes, lastExit, logged,
                   dirty>>

\* The loop body of the direct caller takes some time.
DirectWork ==
    /\ pc = "direct"
    /\ ret # "none"
    /\ late < MaxLate
    /\ Elapse(0, 1)
    /\ UNCHANGED <<polVars, callVars, runVars, pc, sleeps>>

InitDirect ==
    /\ InitPolicy
    /\ Count \in (IF kind = "Counter" THEN Counts ELSE {0})
    /\ pc = "direct"
    /\ runs = 0
    /\ advancing = FALSE

NextDirect == DirectNextOr \/ DirectWork

SpecPolicy == InitDirect /\ [][NextDirect]_vars

\* The lines dedup is tried on, and the logs made of them.
Lines == {"a", "b", "c"}
Logs == UNION {[1..n -> Lines] : n \in 0..MaxLines}

\* run's closure fail is about to run on a recorder holding any log: the
\* policy and the clock play no part.
InitDedup ==
    /\ rr \in {[fail |-> FALSE, output |-> a] : a \in Logs}
    /\ logged = rr.output
    /\ pc = "fail"
    /\ kind = "Counter"
    /\ Count = 0
    /\ Timeout = 0
    /\ Wait = 0
    /\ count = 0
    /\ stop = ZeroTime
    /\ stopWrites = 0
    /\ now = Epoch
    /\ ret = "none"
    /\ callAt = Epoch
    /\ slept = 0
    /\ nTrue = 0
    /\ nFalse = 0
    /\ failCalls = 0
    /\ tEvents = <<>>
    /\ wg = 0
    /\ alive = 0
    /\ runs = 1
    /\ attempts = 0
    /\ sleeps = 0
    /\ outcomes = <<>>
    /\ lastExit = "none"
    /\ dirty = FALSE
    /\ late = 0
    /\ advancing = FALSE

\* fail(): out := dedup(rr.output), t.Log(out) unless out is empty, t.FailNow().
Fail ==
    /\ pc = "fail"
    /\ RunFail
    /\ pc' = "exhausted"
    /\ UNCHANGED <<polVars, callVars, now, late, sleeps, rr, wg, alive, runs,
                   attempts, outcomes, lastExit, logged, dirty>>

NextDedup == Fail

SpecDedup == InitDedup /\ [][NextDedup]_vars

\* RunWith with a fresh Counter of any Count an int can hold or with a fresh
\* Timer, the clock advancing during every attempt: no cap on the attempts
\* is needed.
InitLive ==
    /\ InitPolicy
    /\ Count \in (IF kind = "Counter" THEN MinInt..MaxInt ELSE {0})
    /\ pc = "next"
    /\ runs = 1
    /\ advancing = TRUE

\* The steps of run's own goroutine.
RunStep == RunNextOr \/ Launch \/ Join \/ Check

\* The steps that end an attempt.
AttemptEnd == AttemptFatal \/ AttemptFatalf \/ AttemptFailNow \/ AttemptReturn

\* One RunWith call.
NextLive ==
    \/ RunNextOr
    \/ Launch
    \/ AttemptError
    \/ AttemptFatal
    \/ AttemptFatalf
    \/ AttemptFailNow
    \/ AttemptReturn
    \/ Join
    \/ Check

\* Goroutines that can run do run, and every attempt ends.
SpecLive ==
    /\ InitLive
    /\ [][NextLive]_vars
    /\ WF_vars(RunStep)
    /\ WF_vars(AttemptEnd)

\* ------------------------------------------------------------ properties

\* The latest finished attempt of the current run called none of Error,
\* Fatal, Fatalf and FailNow.
LastClean == outcomes # <<>> /\ ~outcomes[Len(outcomes)]

\* C1: if attempt k is the first attempt of a RunWith call that calls neither
\* Error nor Fatal/Fatalf/FailNow, then the call runs exactly k attempts (no
\* attempt is launched after it, and every earlier one had failed), nothing is
\* logged to t and t is not failed, and from the check after the join the
\* call returns; this for a Counter and for a Timer alike.
C1_FirstCleanAttemptEndsRun ==
    /\ [](\A i \in 1..(Len(outcomes) - 1) : outcomes[i])
    /\ [](LastClean => /\ attempts = Len(outcomes)
                       /\ pc \in {"wait", "check", "done"}
                       /\ alive = 0
                       /\ tEvents = <<>>)
    /\ [](pc = "done" => LastClean)
    /\ [][(pc = "check" /\ LastClean) => pc' = "done"]_vars

\* A call that returned after its second attempt, the first having logged.
C1_Witness ==
    /\ pc = "done"
    /\ attempts = 2
    /\ outcomes = <<TRUE, FALSE>>
    /\ rr.output # <<>>

\* The run is the first use of a policy on which NextOr had not been called.
Fresh == runs = 1

Max(a, b) == IF a >= b THEN a ELSE b

AllFailed == \A i \in DOMAIN outcomes : outcomes[i]

\* C2 (as stated): a fresh Counter{Count: n, Wait: d} whose attempts all call
\* Error is exhausted after exactly n attempts, one callback and n-1 sleeps.
C2_Original ==
    (kind = "Counter" /\ Fresh /\ pc = "exhausted")
        => /\ attempts = Count
           /\ failCalls = 1
           /\ sleeps = Count - 1

\* C2 (amended): for n >= 0 the run never launches more than n attempts, goes
\* on while every attempt fails, and is exhausted after exactly n attempts,
\* all failed, with one callback (none before) and max(n-1, 0) sleeps, one
\* before each attempt but the first, each lasting d or longer.
C2_CounterAttemptsAndSleeps ==
    (kind = "Counter" /\ Fresh /\ Count >= 0)
        => /\ attempts <= Count
           /\ sleeps = Max(nTrue - 1, 0)
           /\ now = Epoch + sleeps * Wait + late
           /\ failCalls = (IF pc = "exhausted" THEN 1 ELSE 0)
           /\ AllFailed => pc # "done"
           /\ pc = "exhausted" => /\ attempts = Count
                                  /\ Len(outcomes) = Count
                                  /\ AllFailed
                                  /\ sleeps = Max(Count - 1, 0)

\* Counter{Count: 3, Wait: 2} exhausted by three failing attempts and two sleeps.
C2_Witness ==
    /\ kind = "Counter" /\ Fresh /\ Count = MaxCount /\ Wait = MaxWait
    /\ pc = "exhausted"
    /\ attempts = MaxCount
    /\ sleeps = MaxCount - 1
    /\ failCalls = 1

\* C3: an attempt ended by Fatal, Fatalf or FailNow has ended only its own
\* goroutine: the WaitGroup is released, run goes on to the check and finds
\* rr.fail set, as after an attempt that called Error and returned, and from
\* the check it resets the flag and consults the policy again.
C3_AbortSeenAsFailure ==
    /\ []((lastExit = "goexit" /\ pc = "wait") => (Joined /\ alive = 0))
    /\ []((pc = "check" /\ lastExit = "goexit") => rr.fail)
    /\ []((pc = "check" /\ lastExit = "return" /\ ~LastClean) => rr.fail)
    /\ [][(pc = "check" /\ lastExit = "goexit") => (pc' = "next" /\ ~rr'.fail)]_vars
    /\ [][lastExit' = "goexit" /\ lastExit # "goexit" => pc' = pc]_vars

\* run is at its check after an attempt that was ended by runtime.Goexit.
C3_Witness ==
    /\ pc = "check"
    /\ lastExit = "goexit"
    /\ rr.fail
    /\ alive = 0

\* The indices of the first occurrence of each distinct line of a.
FirstIdx(a) == {i \in DOMAIN a : \A j \in 1..(i - 1) : a[j] # a[i]}

RECURSIVE JoinLines(_, _, _)
\* The lines of a at the indices I, from index i on, each followed by a newline.
JoinLines(a, I, i) ==
    IF i > Len(a) THEN ""
    ELSE (IF i \in I THEN a[i] \o "\n" ELSE "") \o JoinLines(a, I, i + 1)

tLogs == SelectSeq(tEvents, LAMBDA ev : ev.op = "Log")
tFails == SelectSeq(tEvents, LAMBDA ev : ev.op = "FailNow")

\* C4: once a RunWith call is exhausted, t has received at most one log
\* block, none exactly when no line was logged during the call, and the block
\* is every distinct line logged by the call's attempts, once, in the order
\* of first occurrence, each followed by a newline (so a line every attempt
\* logged appears once); t.FailNow was called exactly once, after the log.
C4_OneDedupedBlockThenFail ==
    pc = "exhausted"
        => /\ Len(tLogs) <= 1
           /\ Len(tLogs) = 0 <=> logged = <<>>
           /\ \A i \in DOMAIN tLogs :
                  tLogs[i].text = JoinLines(logged, FirstIdx(logged), 1)
           /\ (logged # <<>> /\ \A i \in DOMAIN logged : logged[i] = logged[1])
                  => tLogs[1].text = logged[1] \o "\n"
           /\ Len(tFails) = 1
           /\ tEvents[Len(tEvents)].op = "FailNow"
           /\ Len(tEvents) = Len(tLogs) + 1

\* Three attempts logged the same line; the block holds it once.
C4_Witness ==
    /\ pc = "exhausted"
    /\ attempts = 3
    /\ logged = <<"x_test.go:10: x", "x_test.go:10: x", "x_test.go:10: x">>
    /\ tEvents = <<[op |-> "Log", text |-> "x_test.go:10: x\n"], [op |-> "FailNow"]>>

\* C5: t.Log and t.FailNow are called only by the exhaustion callback: t has
\* received something only in a run that fail() has ended, and a run that
\* returned after a clean attempt has called neither, whatever its earlier
\* attempts logged.
C5_HostTouchedOnlyOnExhaustion ==
    /\ tEvents # <<>> => (pc = "exhausted" /\ ret = "goexit" /\ failCalls >= 1)
    /\ pc = "done" => tEvents = <<>>

\* A run that returned although earlier attempts had logged.
C5_Witness ==
    /\ pc = "done"
    /\ Len(logged) >= 2
    /\ rr.output = logged
    /\ tEvents = <<>>

\* A step that is a NextOr call of the direct caller.
Called == nTrue' + nFalse' = nTrue + nFalse + 1

\* C6 (as stated): over the life of a policy NextOr returns false exactly
\* once (here: never more than once), having invoked the callback, which it
\* invokes in no call that returns true.
C6_Original ==
    /\ nFalse <= 1
    /\ failCalls = nFalse

\* C6 (amended): every call that returns false has invoked the callback, once,
\* and no call that returns true invokes it; but false is returned again by
\* every call that follows one that returned false, not just once.
C6_FalseWithCallbackEveryTime ==
    /\ [](failCalls = nFalse)
    /\ [][(Called /\ ret' = "false") => failCalls' = failCalls + 1]_vars
    /\ [][(Called /\ ret' = "true") => failCalls' = failCalls]_vars
    /\ [][(Called /\ ret = "false") => ret' = "false"]_vars

\* A Timer and a Counter that have each reported exhaustion twice.
C6_Witness ==
    /\ nTrue >= 1
    /\ nFalse >= 2
    /\ failCalls = nFalse
    /\ ret = "false"

\* C7: Timer.NextOr.  The first call on a fresh Timer sets stop to
\* now + Timeout and returns true at once, without sleeping or calling fail,
\* for any Timeout.  A later call made when now is after stop calls fail and
\* returns false at once; any other later call sleeps once, for Wait or
\* longer, and returns true without calling fail.  Later calls leave stop alone.
C7_TimerNextOr ==
    [][(kind = "Timer" /\ Called) =>
          IF nTrue + nFalse = 0
          THEN /\ stop' = now + Timeout
               /\ ret' = "true"
               /\ slept' = 0 /\ now' = now
               /\ failCalls' = failCalls
          ELSE /\ stop' = stop
               /\ IF now > stop
                  THEN /\ failCalls' = failCalls + 1
                       /\ ret' = "false"
                       /\ slept' = 0 /\ now' = now
                  ELSE /\ slept' = 1 /\ now' >= now + Wait
                       /\ late' = late => now' = now + Wait
                       /\ ret' = "true"
                       /\ failCalls' = failCalls]_vars

\* A Timer with a negative Timeout whose first call returned true and whose
\* second reported exhaustion, and one that slept in between.
C7_Witness ==
    /\ kind = "Timer"
    /\ ret = "false"
    /\ nTrue >= 2
    /\ slept = 0
    /\ now > stop

\* C8 (as stated): with a fresh Timer{Timeout: budget, Wait: poll}, poll > 0,
\* failing attempts that take no time and exact sleeps, the number of
\* attempts run before exhaustion is within 1 of budget / poll (taken here
\* for budget >= 0 only, where it fails already).
C8_Original ==
    (kind = "Timer" /\ Fresh /\ Wait > 0 /\ late = 0 /\ pc = "exhausted"
                    /\ Timeout >= 0)
        => /\ attempts * Wait - Timeout <= Wait
           /\ Timeout - attempts * Wait <= Wait

\* C8 (amended): under the same conditions the number of attempts is exactly
\* budget \div poll + 2 when budget >= 0 (one at once, one after each sleep
\* begun at or before the deadline), and 1 when budget < 0; the run does not
\* end before that; the first attempt starts when RunWith is called.
C8_TimerAttempts ==
    (kind = "Timer" /\ Fresh /\ Wait > 0)
        => /\ (attempts <= 1 /\ pc \in {"body", "wait"} /\ alive = attempts)
                  => (now = Epoch /\ sleeps = 0)
           /\ late = 0 =>
                /\ AllFailed => pc # "done"
                /\ pc = "exhausted" =>
                     /\ AllFailed
                     /\ attempts = (IF Timeout >= 0 THEN (Timeout \div Wait) + 2
                                    ELSE 1)

\* Timer{Timeout: 2, Wait: 1}: four attempts, at +0, +1, +2 and +3.
C8_Witness ==
    /\ kind = "Timer" /\ Fresh /\ late = 0
    /\ Timeout = MaxTimeout /\ Wait = 1
    /\ pc = "exhausted"
    /\ attempts = MaxTimeout + 2

\* C9: at most one attempt goroutine is alive; one is alive only while run
\* waits at wg.Wait, so an attempt is launched only when the one before has
\* ended (by return or by Goexit), and run reads and resets rr.fail (its
\* check) and reads rr.output (in fail) only when none is alive; the recorder
\* is written by the one live attempt or by run's check, never by both.
C9_OneWorkerAtATime ==
    /\ [](alive \in {0, 1})
    /\ [](alive = 1 => pc = "wait")
    /\ [](pc \in {"next", "body", "check", "done", "exhausted"} => alive = 0)
    /\ [][alive' > alive => (alive = 0 /\ Len(outcomes) = attempts)]_vars
    /\ [][(rr' # rr /\ runs' = runs) =>
             \/ pc = "wait" /\ pc' = "wait" /\ alive = 1
             \/ pc = "check" /\ alive = 0 /\ alive' = 0]_vars

\* The second attempt is running, the first has ended and was joined.
C9_Witness ==
    /\ pc = "wait"
    /\ alive = 1
    /\ attempts = 2
    /\ Len(outcomes) = 1
    /\ rr.output # <<>>

\* What C10 says of the latest NextOr call of the run.
DelayRule ==
    /\ (pc = "body" /\ attempts = 0) => (slept = 0 /\ now = callAt)
    /\ (pc = "body" /\ attempts > 0) => (slept = 1 /\ now - callAt >= Wait)
    /\ pc = "exhausted" => (slept = 0 /\ now = callAt)

\* C10 (as stated): in RunWith with either policy the first attempt is not
\* preceded by a delay, every later attempt is preceded by exactly one delay
\* of Wait, and the call that reports exhaustion does not sleep (taken here
\* for Wait > 0 and a Timer or a Counter with Count >= 1, where it fails
\* already).
C10_Original == (Wait > 0 /\ (kind = "Counter" => Count >= 1)) => DelayRule

\* A Counter's count has gone past the greatest int: it is negative, and
\* NextOr does not sleep until it is positive again.
Wrapped == kind = "Counter" /\ count < 0

\* C10 (amended): the same, for a policy on which NextOr had not been called
\* before this RunWith and, if a Counter, one whose count has not wrapped
\* around (it never does when Count >= 0); and the run has slept once per
\* attempt but the first.
C10_DelayBetweenAttempts ==
    (Fresh /\ ~Wrapped)
          => /\ DelayRule
             /\ pc = "body" => sleeps = attempts
             /\ pc \in {"wait", "check", "next", "done", "exhausted"}
                    => sleeps = Max(attempts - 1, 0)

\* A Timer and a Counter on their first run, about to launch a third attempt.
C10_Witness ==
    /\ Fresh
    /\ pc = "body"
    /\ attempts = 2
    /\ slept = 1
    /\ Wait = MaxWait
    /\ now - callAt >= Wait

\* The current RunWith call is over: it has returned, or fail has ended it.
Ended == pc \in {"done", "exhausted"}

\* C11: every RunWith call ends, by returning or by exhaustion of the
\* policy, when its attempts end: for a Counter with any Count an int can
\* hold (a negative one is reached when count has wrapped around), and for a
\* Timer with any Timeout when the clock advances during every attempt.
C11_RunWithEnds == (pc = "next") ~> Ended

\* A Counter with a negative Count exhausted once count had wrapped around
\* to it, and so after more attempts than any Count >= 0 allows.
C11_Witness ==
    /\ kind = "Counter"
    /\ Count < 0
    /\ pc = "exhausted"
    /\ count = Count
    /\ attempts > MaxInt

\* C12: dedup(lines) is each distinct line of lines once, in the order of
\* first occurrence, each followed by a newline; dedup of no line is the empty
\* string and dedup(<<"a", "b", "a", "c", "b">>) is "a\nb\nc\n"; fail hands
\* t.Log exactly that string, unless it is empty.
C12_DedupFirstOccurrences ==
    /\ dedup(rr.output) = JoinLines(rr.output, FirstIdx(rr.output), 1)
    /\ rr.output = <<>> => dedup(rr.output) = ""
    /\ rr.output # <<>> => dedup(rr.output) # ""
    /\ rr.output = <<"a", "b", "a", "c", "b">>
           => dedup(rr.output) = "a\nb\nc\n"
    /\ pc = "exhausted"
           => tLogs = IF rr.output = <<>> THEN <<>>
                      ELSE <<[op |-> "Log",
                              text |-> JoinLines(rr.output, FirstIdx(rr.output), 1)]>>

\* fail has run on the log a, b, a, c, b and handed t.Log "a\nb\nc\n".
C12_Witness ==
    /\ pc = "exhausted"
    /\ rr.output = <<"a", "b", "a", "c", "b">>
    /\ tEvents = <<[op |-> "Log", text |-> "a\nb\nc\n"], [op |-> "FailNow"]>>

\* C13: an attempt that calls Error goes on after the call and may call Error
\* again, while nothing of an attempt runs after Fatal, Fatalf or FailNow; in
\* both cases the attempt counts as failed whatever it does next: no step
\* clears rr.fail before run's check, which then goes back to the policy, and
\* the policy permits another attempt or reports exhaustion.
C13_ErrorGoesOnAbortEnds ==
    /\ [](/\ (pc \in {"wait", "check"} /\ dirty) => rr.fail
          /\ (pc \in {"wait", "check"} /\ lastExit = "goexit") => alive = 0)
    /\ [][/\ (alive > 0 /\ rr'.output # rr.output /\ lastExit' = "none")
                 => (alive' = alive /\ pc' = "wait" /\ rr'.fail)
          /\ (alive = 0 /\ runs' = runs) => rr'.output = rr.output
          /\ (pc = "wait" /\ rr.fail) => rr'.fail
          /\ (pc = "check" /\ dirty) => pc' = "next"
          /\ pc = "next" => pc' \in {"body", "exhausted"}]_vars

\* An attempt called Error twice and returned; run counted it as failed and
\* is back at the policy.
C13_Witness ==
    /\ pc = "next"
    /\ attempts = 1
    /\ lastExit = "return"
    /\ Len(rr.output) = 2
    /\ outcomes = <<TRUE>>

\* C14: within one RunWith call the recorder's log only grows at its end: a
\* step changes it only by appending one line, and only a step of the live
\* attempt does (a Fatal or Fatalf step appends the line, sets fail and ends
\* the attempt); run's check resets fail and leaves the log as it is; so the
\* log is at all times, and at exhaustion, the lines logged by the call's
\* attempts in the order they were logged.
C14_LogAppendOnly ==
    /\ [](rr.output = logged)
    /\ [][runs' = runs
             => /\ \/ rr'.output = rr.output
                   \/ /\ alive > 0
                      /\ Len(rr'.output) = Len(rr.output) + 1
                      /\ SubSeq(rr'.output, 1, Len(rr.output)) = rr.output
                      /\ rr'.fail
                      /\ lastExit' = "goexit" => alive' = 0
                /\ pc = "check" => (rr'.output = rr.output /\ ~rr'.fail)
                /\ alive = 0 => rr'.output = rr.output]_vars

\* Exhaustion after two attempts or more that logged three lines between
\* them, not all the same: the log holds them in the order logged.
C14_Witness ==
    /\ pc = "exhausted"
    /\ attempts >= 2
    /\ Len(rr.output) = 3
    /\ rr.output[1] # rr.output[2]
    /\ rr.output = logged

\* C15: in RunWith, the NextOr call that reports exhaustion does not come
\* back to the loop: the step that calls fail is the call's last, t.FailNow
\* being the last thing done, and from then on no attempt is started, NextOr
\* is not called, and the recorder and the policy stay as they are.
C15_NothingAfterExhaustion ==
    /\ [](pc = "exhausted"
              => /\ ret = "goexit"
                 /\ alive = 0
                 /\ wg = 0
                 /\ Len(tFails) = 1
                 /\ tEvents[Len(tEvents)].op = "FailNow")
    /\ [][/\ failCalls' # failCalls => pc' = "exhausted"
          /\ (pc = "exhausted" /\ runs' = runs)
                 => UNCHANGED <<attempts, nTrue, nFalse, failCalls, rr, alive,
                                tEvents, count, stop, sleeps, pc>>]_vars

\* Two attempts failed and the policy then reported exhaustion.
C15_Witness ==
    /\ pc = "exhausted"
    /\ attempts = 2
    /\ failCalls = 1
    /\ nTrue = 2

\* C16: rr.fail is false whenever run is about to call NextOr or to launch an
\* attempt, and it was false when fail ran; a flag seen set at the join was
\* set by the attempt just joined, never left over from an earlier one.
C16_FailResetBeforePolicy ==
    /\ pc \in {"next", "body", "exhausted", "done"} => ~rr.fail
    /\ (pc \in {"wait", "check"} /\ rr.fail) => dirty
    /\ pc = "check" => (rr.fail <=> outcomes[Len(outcomes)])

\* A failed attempt was followed by a clean one, which ended the call.
C16_Witness ==
    /\ pc = "done"
    /\ outcomes = <<TRUE, FALSE>>
    /\ ~rr.fail

\* C17: for a Counter with Count >= 0, count stays within 0..Count and is the
\* number of NextOr calls that returned true, so a RunWith call runs at most
\* Count attempts whatever their outcomes; a NextOr call on an exhausted
\* Counter reports exhaustion and leaves count as it is, so a second RunWith
\* given an exhausted Counter is exhausted by its first NextOr call, with no
\* attempt run.
C17_CounterBounded ==
    /\ []((kind = "Counter" /\ Count >= 0)
              => /\ 0 <= count /\ count <= Count
                 /\ count = nTrue
                 /\ attempts <= count
                 /\ attempts <= Count)
    /\ [][(kind = "Counter" /\ Count >= 0 /\ count = Count /\ pc = "next")
              => /\ pc' = "exhausted"
                 /\ failCalls' = failCalls + 1
                 /\ UNCHANGED <<count, attempts, nTrue>>]_vars
    /\ []((kind = "Counter" /\ Count >= 0 /\ runs >= 2 /\ nTrue = Count
               /\ failCalls = runs /\ pc = "exhausted")
              => attempts = 0)

\* A Counter exhausted by a first RunWith was handed to a second one, which
\* was exhausted at once.
C17_Witness ==
    /\ kind = "Counter"
    /\ Count >= 2
    /\ runs = 2
    /\ failCalls = 2
    /\ pc = "exhausted"
    /\ attempts = 0
    /\ count = Count

\* C18: RunWith with a fresh Counter of Count 0 runs no attempt: its first
\* NextOr call calls fail, which logs nothing to t, the recorder's log being
\* empty, and calls t.FailNow; RunWith with a fresh Timer runs one attempt at
\* least, whatever the Timeout, negative or zero: its first NextOr call
\* returns true.
C18_ZeroCountNoAttemptTimerOne ==
    /\ (Fresh /\ kind = "Counter" /\ Count = 0)
           => /\ attempts = 0
              /\ nTrue = 0
              /\ rr.output = <<>>
              /\ pc \in {"next", "exhausted"}
              /\ pc = "exhausted"
                     => (tEvents = <<[op |-> "FailNow"]>> /\ failCalls = 1)
    /\ (Fresh /\ kind = "Timer")
           => /\ pc # "next" => nTrue >= 1
              /\ pc \notin {"next", "body"} => attempts >= 1
              /\ failCalls > 0 => attempts >= 1

\* A fresh Counter of Count 0 was exhausted by the first NextOr call.
C18_Witness ==
    /\ Fresh
    /\ kind = "Counter"
    /\ Count = 0
    /\ pc = "exhausted"
    /\ tEvents = <<[op |-> "FailNow"]>>

\* C19: a Timer looks at the deadline before the sleep and not after it: an
\* attempt is permitted by the first NextOr call or by a call that began at
\* now <= stop, and then slept; with an exact sleep the attempt starts at the
\* call's time plus Wait, which may be after the deadline and is never after
\* stop + Wait; a call that begins at now > stop permits no attempt and does
\* not sleep.
C19_DeadlineCheckedBeforeSleep ==
    /\ []((kind = "Timer" /\ pc = "body")
              => IF slept = 0
                 THEN /\ stop = callAt + Timeout
                      /\ now = callAt
                 ELSE /\ callAt <= stop
                      /\ now >= callAt + Wait
                      /\ now = callAt + Wait => now <= stop + Wait)
    /\ [][(kind = "Timer" /\ pc = "next" /\ ~IsZero(stop))
              => IF now > stop
                 THEN /\ pc' = "exhausted"
                      /\ UNCHANGED <<attempts, now, sleeps, nTrue>>
                 ELSE /\ pc' = "body"
                      /\ slept' = 1
                      /\ now' >= now + Wait]_vars

\* An attempt permitted at the deadline is about to start Wait after it, the
\* sleep having been exact.
C19_Witness ==
    /\ kind = "Timer"
    /\ pc = "body"
    /\ slept = 1
    /\ Wait = MaxWait
    /\ callAt = stop
    /\ now = stop + Wait

\* C20: a Timer's stop is written once, by the first NextOr call made on it,
\* to that call's time plus Timeout; no later call, attempt or sleep writes
\* it, however long they take and however the attempts end; a Timer handed
\* to a second RunWith therefore still has the first one's deadline, and the
\* second RunWith's first NextOr call sleeps, or calls fail when the deadline
\* has passed, before any attempt of that RunWith.
C20_DeadlineWrittenOnce ==
    /\ [](kind = "Timer"
              => /\ stopWrites <= 1
                 /\ stopWrites = 0 <=> IsZero(stop)
                 /\ stopWrites = 0 <=> (nTrue = 0 /\ failCalls = 0)
                 /\ runs >= 2 => stopWrites = 1)
    /\ [][kind = "Timer"
              => /\ ~IsZero(stop) => stop' = stop
                 /\ stop' # stop
                        => (pc = "next" /\ stop' = now + Timeout /\ nTrue' = 1)
                 /\ (runs >= 2 /\ pc = "next" /\ attempts = 0)
                        => IF now > stop
                           THEN pc' = "exhausted" /\ attempts' = 0
                           ELSE pc' = "body" /\ slept' = 1
                                    /\ now' >= now + Wait]_vars

\* A second RunWith with the same Timer has slept before its first attempt,
\* the deadline being the one the first RunWith set, and the clock having
\* moved on since.
C20_Witness ==
    /\ kind = "Timer"
    /\ runs = 2
    /\ pc = "body"
    /\ attempts = 0
    /\ slept = 1
    /\ Wait > 0
    /\ stopWrites = 1
    /\ stop = Epoch + Timeout
    /\ callAt > Epoch

====
